---- MODULE Spec2Model ----
(***************************************************************************)
(* Streaming agents of the a2a samples: CurrencyAgent (langgraph/app),     *)
(* UnitConversionAgent (langgraph_2/app) and PdfSplitAgent                 *)
(* (adobe_split/app).                                                      *)
(*                                                                         *)
(* Spec        one call (invoke or stream) on one agent, with the turn     *)
(*             engine stepped item by item and the events the caller sees. *)
(* SpecAdapter several concurrent calls on one CurrencyAgent instance: the *)
(*             lazy start of the MCP child process and the tool requests   *)
(*             that reach its session.                                     *)
(***************************************************************************)
EXTENDS Integers, Sequences, FiniteSets, TLC

\* ------------------------------------------------------------------ bounds
MaxCalls == 2          \* calls made on one agent instance (SpecAdapter)
MaxToolCalls == 2      \* tool calls one AIMessage may carry
RecursionLimit == 2    \* reasoning/dispatch cycles before the engine's step limit
MaxRunnerEvents == 2   \* events the ADK runner produces in one turn
MaxParts == 2          \* parts of one runner event's content

\* ------------------------------------------------------------------ values
Calls == 1 .. MaxCalls
TurnCalls == {1}
ContextIds == {"ctx1", "ctx2"}
Agents == {"currency", "units", "pdf"}
LangGraphAgents == {"currency", "units"}

Statuses == {"input_required", "completed", "error"}
Texts == {"", "1 USD = 0.92 EUR"}

\* current_state.values.get('structured_response'): None, a ResponseFormat, or
\* a value of another type (here a dict carrying the same fields).
NoResponse == [kind |-> "None", status |-> "", message |-> ""]
ResponseFormat(s, m) == [kind |-> "ResponseFormat", status |-> s, message |-> m]
OtherTyped(s, m) == [kind |-> "dict", status |-> s, message |-> m]
StructuredResponses ==
    {NoResponse}
        \cup {ResponseFormat(s, m) : s \in Statuses, m \in Texts}
        \cup {OtherTyped("completed", m) : m \in Texts}
\* What an earlier turn on the same thread may have left in the checkpoint.
PriorResponses ==
    {NoResponse, ResponseFormat("completed", "earlier answer"),
     ResponseFormat("input_required", "earlier question")}

HumanMessage == [type |-> "human", tool_calls |-> 0]
AIMessage(k) == [type |-> "ai", tool_calls |-> k]
ToolMessage == [type |-> "tool", tool_calls |-> 0]

\* A part of a runner event's content: a text part (possibly empty) or a part
\* whose .text is None (a function call or response).
Part(isText, t) == [is_text |-> isText, text |-> t]
Parts == {Part(FALSE, ""), Part(TRUE, ""), Part(TRUE, "split_1.pdf")}
RECURSIVE SeqsUpTo(_, _)
SeqsUpTo(S, n) ==
    IF n = 0 THEN {<<>>}
    ELSE LET shorter == SeqsUpTo(S, n - 1)
         IN  shorter \cup {Append(s, x) : s \in {t \in shorter : Len(t) = n - 1}, x \in S}
NoContent == [present |-> FALSE, parts |-> <<>>]
Content(ps) == [present |-> TRUE, parts |-> ps]
\* Only a final-response event's content is read (agent.py 217-226).
RunnerEventValues ==
    {[final |-> FALSE, content |-> NoContent]}
        \cup {[final |-> TRUE, content |-> NoContent]}
        \cup {[final |-> TRUE, content |-> Content(ps)] : ps \in SeqsUpTo(Parts, MaxParts)}

Last(s) == s[Len(s)]

\* ------------------------------------------------------------------ state
VARIABLES
    agent,              \* which agent class the instance is
    pc,                 \* pc[c]: where call c stands
    mode,               \* mode[c]: "invoke" or "stream"
    context_id,         \* context_id[c]: the thread / session id the caller gave
    events,             \* events[c]: what call c has yielded (stream) or returned (invoke)
    cycles,             \* cycles[c]: dispatch steps completed in call c's turn
    dispatched,         \* dispatched[c]: tool calls dispatched in call c's turn
    budgetHit,          \* budgetHit[c]: the reasoning step asked for tools at the step limit
    runnerEvents,       \* runnerEvents[c]: events received from runner.run_async
    memory,             \* module-level MemorySaver: thread id -> graph state values
    sessions,           \* InMemorySessionService: session ids that exist
    tools,              \* self.tools: 0 (None) or the session the tools are bound to
    graph,              \* self.graph: 0 (None) or the session its tools are bound to
    session,            \* self.session
    session_cm,         \* self.session_cm
    stdio_client_cm,    \* self.stdio_client_cm
    streams,            \* self.read, self.write: the child they belong to
    children,           \* child processes started (by the call that entered stdio_client)
    entered,            \* ClientSessions entered (by the call that entered it)
    loadSession,        \* loadSession[c]: the session call c passed to load_mcp_tools
    callGraph,          \* callGraph[c]: the graph call c runs its turn on
    outstanding,        \* <<s, c>>: call c has a tool request in flight on session s
    closed,             \* ClientSessions whose __aexit__ has returned
    stdioExited,        \* stdio clients (child processes) whose __aexit__ has returned
    dead,               \* child processes that exited on their own
    cleanupPc,          \* where a running cleanup() stands
    cleanupLog,         \* what the current / last cleanup() did
    runState,           \* runState[c]: the graph state values call c's run works on
    toolPc,             \* a tool function: "ready" with its input drawn, "returned"
    toolInput,          \* the tool call's input and the environment it meets
    toolResult          \* what the tool call gave back

callVars == <<pc, mode, context_id>>
turnVars == <<events, cycles, dispatched, budgetHit, runnerEvents, memory, sessions>>
instVars == <<tools, graph, session, session_cm, stdio_client_cm, streams,
              children, entered, loadSession, callGraph, outstanding>>
extVars == <<closed, stdioExited, dead, cleanupPc, cleanupLog, runState,
             toolPc, toolInput, toolResult>>
vars == <<agent, callVars, turnVars, instVars, extVars>>

\* What one run of cleanup() did: each exit is "skipped" (nothing to exit),
\* "ok" (__aexit__ returned) or "raised"; prevClean says that the run before it
\* exited without raising and nothing was started since.
NoCleanup ==
    [ran |-> FALSE, sessionExit |-> "skipped", stdioExit |-> "skipped", prevClean |-> FALSE,
     entered |-> {}, children |-> {}]

ModesOf(a) == IF a = "pdf" THEN {"stream"} ELSE {"invoke", "stream"}

InitCommon ==
    /\ pc = [c \in Calls |-> "idle"]
    /\ mode = [c \in Calls |-> "stream"]
    /\ context_id = [c \in Calls |-> "ctx1"]
    /\ events = [c \in Calls |-> <<>>]
    /\ cycles = [c \in Calls |-> 0]
    /\ dispatched = [c \in Calls |-> 0]
    /\ budgetHit = [c \in Calls |-> FALSE]
    /\ runnerEvents = [c \in Calls |-> <<>>]
    /\ sessions = {}
    /\ session = 0
    /\ session_cm = 0
    /\ stdio_client_cm = 0
    /\ streams = 0
    /\ children = {}
    /\ entered = {}
    /\ loadSession = [c \in Calls |-> 0]
    /\ callGraph = [c \in Calls |-> 0]
    /\ outstanding = {}
    /\ closed = {}
    /\ stdioExited = {}
    /\ dead = {}
    /\ cleanupPc = "idle"
    /\ cleanupLog = NoCleanup
    /\ runState = [c \in Calls |-> [messages |-> <<>>, structured_response |-> NoResponse]]

NoTool ==
    /\ toolPc = "none"
    /\ toolInput = <<>>
    /\ toolResult = <<>>

\* CurrencyAgent.__init__ leaves tools and graph None; UnitConversionAgent.__init__
\* builds its graph (in-process tools, no session: written -1).
InitInstance(a) ==
    /\ agent = a
    /\ tools = IF a = "units" THEN -1 ELSE 0
    /\ graph = IF a = "units" THEN -1 ELSE 0

Init ==
    /\ InitCommon
    /\ NoTool
    /\ \E a \in Agents : InitInstance(a)
    /\ memory \in [ContextIds -> [messages : {<<>>}, structured_response : PriorResponses]]
    /\ agent = "pdf" => \A id \in ContextIds : memory[id].structured_response = NoResponse

\* ------------------------------------------------------- the call arrives
Call(c, m, id) ==
    /\ pc[c] = "idle"
    /\ m \in ModesOf(agent)
    /\ mode' = [mode EXCEPT ![c] = m]
    /\ context_id' = [context_id EXCEPT ![c] = id]
    /\ pc' = [pc EXCEPT ![c] = IF agent = "currency" THEN "init" ELSE "ready"]
    /\ UNCHANGED <<agent, extVars, turnVars, instVars>>

\* ------------------------------------------- CurrencyAgent._initialize_tools
\* if self.tools is None: self.stdio_client_cm = stdio_client(...);
\* await self.stdio_client_cm.__aenter__()            (suspends)
InitializeTools_Check(c) ==
    /\ pc[c] = "init"
    /\ IF tools = 0
       THEN /\ stdio_client_cm' = c
            /\ children' = children \cup {c}
            /\ pc' = [pc EXCEPT ![c] = "await_stdio"]
       ELSE /\ pc' = [pc EXCEPT ![c] = "ready"]
            /\ UNCHANGED <<stdio_client_cm, children>>
    /\ UNCHANGED <<agent, extVars, mode, context_id, turnVars, tools, graph, session, session_cm,
                   streams, entered, loadSession, callGraph, outstanding>>

\* self.read, self.write = <result>; self.session_cm = ClientSession(self.read,
\* self.write); await self.session_cm.__aenter__()    (suspends)
InitializeTools_StdioEntered(c) ==
    /\ pc[c] = "await_stdio"
    /\ streams' = c
    /\ session_cm' = c
    /\ entered' = entered \cup {c}
    /\ pc' = [pc EXCEPT ![c] = "await_session"]
    /\ UNCHANGED <<agent, extVars, mode, context_id, turnVars, tools, graph, session,
                   stdio_client_cm, children, loadSession, callGraph, outstanding>>

\* self.session = <result>; await self.session.initialize()   (suspends)
InitializeTools_SessionEntered(c) ==
    /\ pc[c] = "await_session"
    /\ session' = c
    /\ pc' = [pc EXCEPT ![c] = "await_initialize"]
    /\ UNCHANGED <<agent, extVars, mode, context_id, turnVars, tools, graph, session_cm,
                   stdio_client_cm, streams, children, entered, loadSession,
                   callGraph, outstanding>>

\* await load_mcp_tools(self.session): self.session is read after the suspension
InitializeTools_Initialized(c) ==
    /\ pc[c] = "await_initialize"
    /\ loadSession' = [loadSession EXCEPT ![c] = session]
    /\ pc' = [pc EXCEPT ![c] = "await_load"]
    /\ UNCHANGED <<agent, extVars, mode, context_id, turnVars, tools, graph, session, session_cm,
                   stdio_client_cm, streams, children, entered, callGraph, outstanding>>

\* self.tools = <result>; self.graph = create_react_agent(..., tools=self.tools, ...)
InitializeTools_Loaded(c) ==
    /\ pc[c] = "await_load"
    /\ tools' = loadSession[c]
    /\ graph' = loadSession[c]
    /\ pc' = [pc EXCEPT ![c] = "ready"]
    /\ UNCHANGED <<agent, extVars, mode, context_id, turnVars, session, session_cm,
                   stdio_client_cm, streams, children, entered, loadSession,
                   callGraph, outstanding>>

InitializeTools(c) ==
    \/ InitializeTools_Check(c)
    \/ InitializeTools_StdioEntered(c)
    \/ InitializeTools_SessionEntered(c)
    \/ InitializeTools_Initialized(c)
    \/ InitializeTools_Loaded(c)

\* ------------------------------------------------------ get_agent_response
GenericMessage == "We are unable to process your request at the moment. Please try again."

Event(complete, input, content) ==
    [is_task_complete |-> complete, require_user_input |-> input, content |-> content]

\* `structured_response and isinstance(structured_response, ResponseFormat)`:
\* None is falsy, a pydantic model instance is truthy.
\* (variant: the isinstance test dropped, truthiness alone decides)
IsResponseFormat_TruthyOnly(sr) == sr.kind # "None"

IsResponseFormat(sr) == sr.kind = "ResponseFormat"

\* (variant: the 'completed' and 'error' branches exchanged)
get_agent_response_Swapped(sr) ==
    IF IsResponseFormat(sr) /\ sr.status = "input_required"
        THEN Event(FALSE, TRUE, sr.message)
    ELSE IF IsResponseFormat(sr) /\ sr.status = "completed"
        THEN Event(FALSE, TRUE, sr.message)
    ELSE IF IsResponseFormat(sr) /\ sr.status = "error"
        THEN Event(TRUE, FALSE, sr.message)
    ELSE Event(FALSE, TRUE, GenericMessage)

\* (variant: the 'error' branch does not ask for user input)
get_agent_response_ErrorSilent(sr) ==
    IF IsResponseFormat(sr) /\ sr.status = "input_required"
        THEN Event(FALSE, TRUE, sr.message)
    ELSE IF IsResponseFormat(sr) /\ sr.status = "error"
        THEN Event(FALSE, FALSE, sr.message)
    ELSE IF IsResponseFormat(sr) /\ sr.status = "completed"
        THEN Event(TRUE, FALSE, sr.message)
    ELSE Event(FALSE, TRUE, GenericMessage)

get_agent_response(sr) ==
    IF IsResponseFormat(sr) /\ sr.status = "input_required"
        THEN Event(FALSE, TRUE, sr.message)
    ELSE IF IsResponseFormat(sr) /\ sr.status = "error"
        THEN Event(FALSE, TRUE, sr.message)
    ELSE IF IsResponseFormat(sr) /\ sr.status = "completed"
        THEN Event(TRUE, FALSE, sr.message)
    ELSE Event(FALSE, TRUE, GenericMessage)

\* --------------------------------------------- the body of stream's for loop
LookupText(a) == IF a = "currency" THEN "Looking up the exchange rates..." ELSE "Converting units..."
ProcessingText(a) ==
    IF a = "currency" THEN "Processing the exchange rates.." ELSE "Processing the conversion..."

\* (variant: the ToolMessage branch marks its event complete)
ProgressFor_ToolComplete(a, message) ==
    IF message.type = "ai" /\ message.tool_calls > 0
        THEN <<Event(FALSE, FALSE, LookupText(a))>>
    ELSE IF message.type = "tool"
        THEN <<Event(TRUE, FALSE, ProcessingText(a))>>
    ELSE <<>>

\* (variant: no ToolMessage branch)
ProgressFor_NoToolBranch(a, message) ==
    IF message.type = "ai" /\ message.tool_calls > 0
        THEN <<Event(FALSE, FALSE, LookupText(a))>>
    ELSE <<>>

\* message = item['messages'][-1]; what the loop body yields for it
ProgressFor(a, message) ==
    IF message.type = "ai" /\ message.tool_calls > 0
        THEN <<Event(FALSE, FALSE, LookupText(a))>>
    ELSE IF message.type = "tool"
        THEN <<Event(FALSE, FALSE, ProcessingText(a))>>
    ELSE <<>>

\* invoke runs the graph with ainvoke / invoke and looks at no item
Yielded(c, message) ==
    IF mode[c] = "stream" THEN events[c] \o ProgressFor(agent, message) ELSE events[c]

\* (variant: the checkpoint is looked up under one fixed thread id)
Thread_FixedId(c) == memory["ctx1"]

Thread(c) == memory[context_id[c]]
History(c) == Thread(c).messages
WithMessages(c, ms) == [memory EXCEPT ![context_id[c]].messages = ms]

RECURSIVE Repeat(_, _)
Repeat(x, n) == IF n = 0 THEN <<>> ELSE Append(Repeat(x, n - 1), x)

\* ------------------------------------- graph.astream / graph.stream / ainvoke
\* The graph built by create_react_agent(model, tools, checkpointer=memory,
\* response_format=ResponseFormat), run with stream_mode='values': one item per
\* step, the first being the input.
Graph_Input(c) ==
    /\ agent \in LangGraphAgents
    /\ pc[c] = "ready"
    /\ callGraph' = [callGraph EXCEPT ![c] = graph]
    /\ memory' = WithMessages(c, Append(History(c), HumanMessage))
    /\ events' = [events EXCEPT ![c] = Yielded(c, HumanMessage)]
    /\ pc' = [pc EXCEPT ![c] = "running"]
    /\ UNCHANGED <<agent, extVars, mode, context_id, cycles, dispatched, budgetHit, runnerEvents,
                   sessions, tools, graph, session, session_cm, stdio_client_cm, streams,
                   children, entered, loadSession, outstanding>>

\* the reasoning step asks for k tool calls
Graph_AgentRequestsTools(c, k) ==
    /\ agent \in LangGraphAgents
    /\ pc[c] = "running"
    /\ Last(History(c)).type \in {"human", "tool"}
    /\ cycles[c] < RecursionLimit
    /\ k \in 1 .. MaxToolCalls
    /\ memory' = WithMessages(c, Append(History(c), AIMessage(k)))
    /\ events' = [events EXCEPT ![c] = Yielded(c, AIMessage(k))]
    /\ UNCHANGED <<agent, extVars, callVars, cycles, dispatched, budgetHit, runnerEvents, sessions,
                   instVars>>

\* the tools step runs the requested calls and folds their ToolMessages in
Graph_ToolsRun(c) ==
    /\ agent \in LangGraphAgents
    /\ pc[c] = "running"
    /\ Last(History(c)).type = "ai"
    /\ Last(History(c)).tool_calls > 0
    /\ memory' = WithMessages(c, History(c) \o Repeat(ToolMessage, Last(History(c)).tool_calls))
    /\ events' = [events EXCEPT ![c] = Yielded(c, ToolMessage)]
    /\ cycles' = [cycles EXCEPT ![c] = @ + 1]
    /\ dispatched' = [dispatched EXCEPT ![c] = @ + Last(History(c)).tool_calls]
    /\ UNCHANGED <<agent, extVars, callVars, budgetHit, runnerEvents, sessions, instVars>>

\* the reasoning step answers without a tool call
Graph_AgentAnswers(c) ==
    /\ agent \in LangGraphAgents
    /\ pc[c] = "running"
    /\ Last(History(c)).type \in {"human", "tool"}
    /\ memory' = WithMessages(c, Append(History(c), AIMessage(0)))
    /\ events' = [events EXCEPT ![c] = Yielded(c, AIMessage(0))]
    /\ pc' = [pc EXCEPT ![c] = "structuring"]
    /\ UNCHANGED <<agent, extVars, mode, context_id, cycles, dispatched, budgetHit, runnerEvents,
                   sessions, instVars>>

\* The code passes no budget: config holds the thread id only, so the turn ends
\* at the graph's own step limit.  A reasoning step that asks for tools there
\* makes the graph either raise its recursion error or replace the request by a
\* plain AIMessage and go on to the structured response.
Graph_StepLimit(c) ==
    /\ agent \in LangGraphAgents
    /\ pc[c] = "running"
    /\ Last(History(c)).type = "tool"
    /\ cycles[c] = RecursionLimit
    /\ budgetHit' = [budgetHit EXCEPT ![c] = TRUE]
    /\ \/ /\ pc' = [pc EXCEPT ![c] = "raised"]
          /\ UNCHANGED <<memory, events>>
       \/ /\ memory' = WithMessages(c, Append(History(c), AIMessage(0)))
          /\ events' = [events EXCEPT ![c] = Yielded(c, AIMessage(0))]
          /\ pc' = [pc EXCEPT ![c] = "structuring"]
    /\ UNCHANGED <<agent, extVars, mode, context_id, cycles, dispatched, runnerEvents, sessions,
                   instVars>>

\* generate_structured_response writes state['structured_response']; the last
\* message of the item is still the answering AIMessage
Graph_StructuredResponse(c, sr) ==
    /\ agent \in LangGraphAgents
    /\ pc[c] = "structuring"
    /\ sr \in StructuredResponses
    /\ memory' = [memory EXCEPT ![context_id[c]].structured_response = sr]
    /\ events' = [events EXCEPT ![c] = Yielded(c, Last(History(c)))]
    /\ pc' = [pc EXCEPT ![c] = "finished"]
    /\ UNCHANGED <<agent, extVars, mode, context_id, cycles, dispatched, budgetHit, runnerEvents,
                   sessions, instVars>>

\* a step of the graph raises (model call, tool node, checkpointer)
Graph_Raises(c) ==
    /\ agent \in LangGraphAgents
    /\ pc[c] \in {"running", "structuring"}
    /\ pc' = [pc EXCEPT ![c] = "raised"]
    /\ UNCHANGED <<agent, extVars, mode, context_id, turnVars, instVars>>

\* yield self.get_agent_response(config) / return self.get_agent_response(config)
Respond(c) ==
    /\ agent \in LangGraphAgents
    /\ pc[c] = "finished"
    /\ events' = [events EXCEPT ![c] = Append(@, get_agent_response(Thread(c).structured_response))]
    /\ pc' = [pc EXCEPT ![c] = "done"]
    /\ UNCHANGED <<agent, extVars, mode, context_id, cycles, dispatched, budgetHit, runnerEvents,
                   memory, sessions, instVars>>

\* self.graph.get_state(config) raises
Respond_GetStateRaises(c) ==
    /\ agent \in LangGraphAgents
    /\ pc[c] = "finished"
    /\ pc' = [pc EXCEPT ![c] = "raised"]
    /\ UNCHANGED <<agent, extVars, mode, context_id, turnVars, instVars>>

\* ------------------------------------------------------ PdfSplitAgent.stream
ProcessingMessage == "Processing the PDF split request..."

Truthy(p) == p.is_text /\ p.text # ""

RECURSIVE JoinLines(_)
JoinLines(ts) ==
    IF Len(ts) = 0 THEN ""
    ELSE IF Len(ts) = 1 THEN ts[1]
    ELSE ts[1] \o "\n" \o JoinLines(Tail(ts))

TextOf(p) == p.text
RECURSIVE MapText(_)
MapText(ps) == IF Len(ps) = 0 THEN <<>> ELSE <<TextOf(ps[1])>> \o MapText(Tail(ps))

\* (variant: only the first part's text is used)
ResponseText_FirstOnly(content) ==
    IF content.present /\ Len(content.parts) > 0 /\ Truthy(content.parts[1])
    THEN content.parts[1].text
    ELSE ""

\* response = ""; if event.content and event.content.parts and
\* event.content.parts[0].text: response = "\n".join(p.text for p in parts if p.text)
ResponseText(content) ==
    IF content.present /\ Len(content.parts) > 0 /\ Truthy(content.parts[1])
    THEN JoinLines(MapText(SelectSeq(content.parts, Truthy)))
    ELSE ""

PdfEventFor(ev) ==
    IF ev.final
    THEN [is_task_complete |-> TRUE, content |-> ResponseText(ev.content)]
    ELSE [is_task_complete |-> FALSE, content |-> ProcessingMessage]

\* session = await get_session(...); if session is None: await create_session(...)
Pdf_GetOrCreateSession(c) ==
    /\ agent = "pdf"
    /\ pc[c] = "ready"
    /\ sessions' = sessions \cup {context_id[c]}
    /\ pc' = [pc EXCEPT ![c] = "running"]
    /\ UNCHANGED <<agent, extVars, mode, context_id, events, cycles, dispatched, budgetHit,
                   runnerEvents, memory, instVars>>

\* async for event in self._runner.run_async(...): one yield per event
Runner_Event(c, ev) ==
    /\ agent = "pdf"
    /\ pc[c] = "running"
    /\ Len(runnerEvents[c]) < MaxRunnerEvents
    /\ ev \in RunnerEventValues
    /\ runnerEvents' = [runnerEvents EXCEPT ![c] = Append(@, ev)]
    /\ events' = [events EXCEPT ![c] = Append(@, PdfEventFor(ev))]
    /\ UNCHANGED <<agent, extVars, callVars, cycles, dispatched, budgetHit, memory, sessions,
                   instVars>>

\* the runner's generator is exhausted: stream returns
Runner_Ends(c) ==
    /\ agent = "pdf"
    /\ pc[c] = "running"
    /\ pc' = [pc EXCEPT ![c] = "done"]
    /\ UNCHANGED <<agent, extVars, mode, context_id, turnVars, instVars>>

\* the runner raises (model call, session service)
Runner_Raises(c) ==
    /\ agent = "pdf"
    /\ pc[c] = "running"
    /\ pc' = [pc EXCEPT ![c] = "raised"]
    /\ UNCHANGED <<agent, extVars, mode, context_id, turnVars, instVars>>

\* ------------------------------------------------------------ one call: Spec
Next ==
    \/ \E c \in TurnCalls, m \in {"invoke", "stream"}, id \in ContextIds : Call(c, m, id)
    \/ \E c \in TurnCalls : InitializeTools(c)
    \/ \E c \in TurnCalls : Graph_Input(c)
    \/ \E c \in TurnCalls, k \in 1 .. MaxToolCalls : Graph_AgentRequestsTools(c, k)
    \/ \E c \in TurnCalls : Graph_ToolsRun(c)
    \/ \E c \in TurnCalls : Graph_AgentAnswers(c)
    \/ \E c \in TurnCalls : Graph_StepLimit(c)
    \/ \E c \in TurnCalls, sr \in StructuredResponses : Graph_StructuredResponse(c, sr)
    \/ \E c \in TurnCalls : Graph_Raises(c)
    \/ \E c \in TurnCalls : Respond(c)
    \/ \E c \in TurnCalls : Respond_GetStateRaises(c)
    \/ \E c \in TurnCalls : Pdf_GetOrCreateSession(c)
    \/ \E c \in TurnCalls, ev \in RunnerEventValues : Runner_Event(c, ev)
    \/ \E c \in TurnCalls : Runner_Ends(c)
    \/ \E c \in TurnCalls : Runner_Raises(c)

Spec == Init /\ [][Next]_vars

\* ------------------------------------------- concurrent calls: SpecAdapter
\* The turn of a call as the MCP session sees it.  self.graph is read when the
\* call reaches graph.astream / graph.ainvoke; the graph's tools are bound to
\* the session they were loaded from, and each tool call is one request written
\* to that session's child process and one response read back.
Adapter_BeginTurn(c) ==
    /\ pc[c] = "ready"
    /\ callGraph' = [callGraph EXCEPT ![c] = graph]
    /\ pc' = [pc EXCEPT ![c] = "in_graph"]
    /\ UNCHANGED <<agent, extVars, mode, context_id, turnVars, tools, graph, session, session_cm,
                   stdio_client_cm, streams, children, entered, loadSession, outstanding>>

\* The code holds no lock around the graph run or the tool call: nothing in
\* invoke, stream or _initialize_tools makes a request wait for another call's.
Adapter_ToolRequest(c) ==
    /\ pc[c] = "in_graph"
    /\ outstanding' = outstanding \cup {<<callGraph[c], c>>}
    /\ pc' = [pc EXCEPT ![c] = "tool_pending"]
    /\ UNCHANGED <<agent, extVars, mode, context_id, turnVars, tools, graph, session, session_cm,
                   stdio_client_cm, streams, children, entered, loadSession, callGraph>>

Adapter_ToolResponse(c) ==
    /\ pc[c] = "tool_pending"
    /\ outstanding' = outstanding \ {<<callGraph[c], c>>}
    /\ pc' = [pc EXCEPT ![c] = "in_graph"]
    /\ UNCHANGED <<agent, extVars, mode, context_id, turnVars, tools, graph, session, session_cm,
                   stdio_client_cm, streams, children, entered, loadSession, callGraph>>

\* the graph run ends; the call yields / returns get_agent_response(config)
Adapter_EndTurn(c) ==
    /\ pc[c] = "in_graph"
    /\ events' = [events EXCEPT ![c] = Append(@, get_agent_response(Thread(c).structured_response))]
    /\ pc' = [pc EXCEPT ![c] = "done"]
    /\ UNCHANGED <<agent, extVars, mode, context_id, cycles, dispatched, budgetHit, runnerEvents,
                   memory, sessions, instVars>>

InitAdapter ==
    /\ InitCommon
    /\ NoTool
    /\ InitInstance("currency")
    /\ memory = [id \in ContextIds |-> [messages |-> <<>>, structured_response |-> NoResponse]]

NextAdapter ==
    \/ \E c \in Calls, m \in {"invoke", "stream"}, id \in ContextIds : Call(c, m, id)
    \/ \E c \in Calls : InitializeTools(c)
    \/ \E c \in Calls : Adapter_BeginTurn(c)
    \/ \E c \in Calls : Adapter_ToolRequest(c)
    \/ \E c \in Calls : Adapter_ToolResponse(c)
    \/ \E c \in Calls : Adapter_EndTurn(c)

SpecAdapter == InitAdapter /\ [][NextAdapter]_vars

\* ------------------------------------- CurrencyAgent.cleanup: SpecLifecycle
\* Calls and cleanups made one after another on one CurrencyAgent, with the
\* child process free to exit at any time.
Quiet == cleanupPc = "idle" /\ \A c \in Calls : pc[c] \in {"idle", "done", "raised"}

\* hasattr(self, 'stdio_client_cm') and self.stdio_client_cm
AfterSessionPart == IF stdio_client_cm # 0 THEN "exit_stdio" ELSE "idle"

\* if hasattr(self, 'session_cm') and self.session_cm:
\*     await self.session_cm.__aexit__(None, None, None)        (suspends)
Cleanup_Begin ==
    /\ Quiet
    /\ cleanupLog' =
           [ran |-> TRUE, sessionExit |-> "skipped", stdioExit |-> "skipped",
            prevClean |-> /\ cleanupLog.ran
                          /\ cleanupLog.sessionExit # "raised"
                          /\ cleanupLog.stdioExit # "raised"
                          /\ cleanupLog.entered = entered
                          /\ cleanupLog.children = children,
            entered |-> entered, children |-> children]
    /\ cleanupPc' = IF session_cm # 0 THEN "exit_session" ELSE AfterSessionPart
    /\ UNCHANGED <<agent, callVars, turnVars, instVars, closed, stdioExited, dead, runState,
                   toolPc, toolInput, toolResult>>

\* (variant: one try block around both exits, so a raising session exit skips
\* the stdio client)
Cleanup_SessionExit_OneTry ==
    /\ cleanupPc = "exit_session"
    /\ \/ /\ closed' = closed \cup {session_cm}
          /\ session_cm' = 0
          /\ session' = 0
          /\ cleanupLog' = [cleanupLog EXCEPT !.sessionExit = "ok"]
          /\ cleanupPc' = AfterSessionPart
       \/ /\ cleanupLog' = [cleanupLog EXCEPT !.sessionExit = "raised"]
          /\ cleanupPc' = "idle"
          /\ UNCHANGED <<closed, session_cm, session>>
    /\ UNCHANGED <<agent, callVars, turnVars, tools, graph, stdio_client_cm, streams, children,
                   entered, loadSession, callGraph, outstanding, stdioExited, dead, runState,
                   toolPc, toolInput, toolResult>>

\* the session's __aexit__ returns (self.session_cm = None; self.session = None)
\* or raises an Exception (printed; the fields stay); then the second try block
Cleanup_SessionExit ==
    /\ cleanupPc = "exit_session"
    /\ \/ /\ closed' = closed \cup {session_cm}
          /\ session_cm' = 0
          /\ session' = 0
          /\ cleanupLog' = [cleanupLog EXCEPT !.sessionExit = "ok"]
       \/ /\ cleanupLog' = [cleanupLog EXCEPT !.sessionExit = "raised"]
          /\ UNCHANGED <<closed, session_cm, session>>
    /\ cleanupPc' = AfterSessionPart
    /\ UNCHANGED <<agent, callVars, turnVars, tools, graph, stdio_client_cm, streams, children,
                   entered, loadSession, callGraph, outstanding, stdioExited, dead, runState,
                   toolPc, toolInput, toolResult>>

\* the stdio client's __aexit__ returns (self.stdio_client_cm = None; self.read
\* = None; self.write = None) or raises an Exception (printed); cleanup returns
Cleanup_StdioExit ==
    /\ cleanupPc = "exit_stdio"
    /\ \/ /\ stdioExited' = stdioExited \cup {stdio_client_cm}
          /\ stdio_client_cm' = 0
          /\ streams' = 0
          /\ cleanupLog' = [cleanupLog EXCEPT !.stdioExit = "ok"]
       \/ /\ cleanupLog' = [cleanupLog EXCEPT !.stdioExit = "raised"]
          /\ UNCHANGED <<stdioExited, stdio_client_cm, streams>>
    /\ cleanupPc' = "idle"
    /\ UNCHANGED <<agent, callVars, turnVars, tools, graph, session, session_cm, children,
                   entered, loadSession, callGraph, outstanding, closed, dead, runState,
                   toolPc, toolInput, toolResult>>

\* the MCP server process exits on its own, some time after the tools were
\* loaded from it (its exit while _initialize_tools still awaits it is left out)
Child_Exits(s) ==
    /\ tools # 0
    /\ s \in children \ (dead \cup stdioExited)
    /\ dead' = dead \cup {s}
    /\ UNCHANGED <<agent, callVars, turnVars, instVars, closed, stdioExited, cleanupPc,
                   cleanupLog, runState, toolPc, toolInput, toolResult>>

\* a session that can no longer answer: closed by cleanup, or its child gone
Broken(s) == s \in closed \cup stdioExited \cup dead

\* The request of a call on a broken session gets no response.  The tool call
\* raises out of the graph run (the code passes no timeout and catches
\* nothing), or the call stays pending.
Adapter_ToolFails(c) ==
    /\ pc[c] = "tool_pending"
    /\ Broken(callGraph[c])
    /\ outstanding' = outstanding \ {<<callGraph[c], c>>}
    /\ pc' = [pc EXCEPT ![c] = "raised"]
    /\ UNCHANGED <<agent, extVars, mode, context_id, turnVars, tools, graph, session,
                   session_cm, stdio_client_cm, streams, children, entered, loadSession,
                   callGraph>>

NextLifecycle ==
    \/ \E c \in Calls, m \in {"invoke", "stream"}, id \in ContextIds : Quiet /\ Call(c, m, id)
    \/ \E c \in Calls : InitializeTools(c)
    \/ \E c \in Calls : Adapter_BeginTurn(c)
    \/ \E c \in Calls : Adapter_ToolRequest(c)
    \/ \E c \in Calls : ~Broken(callGraph[c]) /\ Adapter_ToolResponse(c)
    \/ \E c \in Calls : Adapter_ToolFails(c)
    \/ \E c \in Calls : Adapter_EndTurn(c)
    \/ Cleanup_Begin
    \/ Cleanup_SessionExit
    \/ Cleanup_StdioExit
    \/ \E s \in Calls : Child_Exits(s)

SpecLifecycle == InitAdapter /\ [][NextLifecycle]_vars

\* ---------------------------------------- concurrent turns: SpecTurns
\* Several stream calls on one langgraph agent, all checkpointing into the
\* module-level `memory` under their thread ids.  A graph run works on the
\* state it loaded for its thread and writes the whole state back after each
\* step (last writer wins); nothing in invoke or stream serializes the runs of
\* one thread id.  The steps are the places where the async stream of
\* CurrencyAgent can be suspended; UnitConversionAgent's synchronous
\* graph.stream is suspended only at its yields, so its interleavings are
\* among these.
\* the two calls whose turns run side by side
TurnPair == {1, 2}

TurnMessage(t, k, c) == [type |-> t, tool_calls |-> k, turn |-> c]
AnswerOf(c) == "answer " \o ToString(c)
Checkpointed(c, st) == [memory EXCEPT ![context_id[c]] = st]

\* self.graph.astream(inputs, config): the run loads the thread's checkpoint
\* and adds the user's message
Turn_Load(c) ==
    /\ agent \in LangGraphAgents
    /\ pc[c] = "ready"
    /\ LET st == [messages |-> Append(Thread(c).messages, TurnMessage("human", 0, c)),
                  structured_response |-> Thread(c).structured_response]
       IN  /\ runState' = [runState EXCEPT ![c] = st]
           /\ memory' = Checkpointed(c, st)
    /\ callGraph' = [callGraph EXCEPT ![c] = graph]
    /\ events' = [events EXCEPT ![c] = Yielded(c, TurnMessage("human", 0, c))]
    /\ pc' = [pc EXCEPT ![c] = "t_running"]
    /\ UNCHANGED <<agent, mode, context_id, cycles, dispatched, budgetHit, runnerEvents,
                   sessions, tools, graph, session, session_cm, stdio_client_cm, streams,
                   children, entered, loadSession, outstanding, closed, stdioExited, dead,
                   cleanupPc, cleanupLog, toolPc, toolInput, toolResult>>

\* one dispatch cycle of the run: the AIMessage asking for a tool, then its
\* ToolMessage; the stream yields a progress event for each
Turn_Dispatch(c) ==
    /\ agent \in LangGraphAgents
    /\ pc[c] = "t_running"
    /\ cycles[c] < RecursionLimit
    /\ LET st == [runState[c] EXCEPT !.messages =
                      @ \o <<TurnMessage("ai", 1, c), TurnMessage("tool", 0, c)>>]
       IN  /\ runState' = [runState EXCEPT ![c] = st]
           /\ memory' = Checkpointed(c, st)
    /\ events' = [events EXCEPT ![c] =
                      IF mode[c] = "stream"
                      THEN @ \o ProgressFor(agent, TurnMessage("ai", 1, c))
                             \o ProgressFor(agent, TurnMessage("tool", 0, c))
                      ELSE @]
    /\ cycles' = [cycles EXCEPT ![c] = @ + 1]
    /\ dispatched' = [dispatched EXCEPT ![c] = @ + 1]
    /\ UNCHANGED <<agent, callVars, budgetHit, runnerEvents, sessions, instVars, closed,
                   stdioExited, dead, cleanupPc, cleanupLog, toolPc, toolInput, toolResult>>

\* the run ends: the answering AIMessage and the turn's structured response
Turn_Finish(c, s) ==
    /\ agent \in LangGraphAgents
    /\ pc[c] = "t_running"
    /\ s \in Statuses
    /\ LET st == [messages |-> Append(runState[c].messages, TurnMessage("ai", 0, c)),
                  structured_response |-> ResponseFormat(s, AnswerOf(c))]
       IN  /\ runState' = [runState EXCEPT ![c] = st]
           /\ memory' = Checkpointed(c, st)
    /\ pc' = [pc EXCEPT ![c] = "t_finished"]
    /\ UNCHANGED <<agent, mode, context_id, events, cycles, dispatched, budgetHit,
                   runnerEvents, sessions, instVars, closed, stdioExited, dead, cleanupPc,
                   cleanupLog, toolPc, toolInput, toolResult>>

\* yield self.get_agent_response(config): reads the thread's state as it is now
Turn_Respond(c) ==
    /\ agent \in LangGraphAgents
    /\ pc[c] = "t_finished"
    /\ events' = [events EXCEPT ![c] = Append(@, get_agent_response(Thread(c).structured_response))]
    /\ pc' = [pc EXCEPT ![c] = "done"]
    /\ UNCHANGED <<agent, extVars, mode, context_id, cycles, dispatched, budgetHit,
                   runnerEvents, memory, sessions, instVars>>

InitTurns ==
    /\ InitCommon
    /\ NoTool
    /\ \E a \in LangGraphAgents : InitInstance(a)
    /\ memory = [id \in ContextIds |-> [messages |-> <<>>, structured_response |-> NoResponse]]

NextTurns ==
    \/ \E c \in TurnPair, id \in ContextIds : Call(c, "stream", id)
    \/ \E c \in TurnPair : InitializeTools(c)
    \/ \E c \in TurnPair : Turn_Load(c)
    \/ \E c \in TurnPair : Turn_Dispatch(c)
    \/ \E c \in TurnPair, s \in Statuses : Turn_Finish(c, s)
    \/ \E c \in TurnPair : Turn_Respond(c)

SpecTurns == InitTurns /\ [][NextTurns]_vars

\* ------------------------------------------------ the tools: SpecTools
\* One tool call: toolInput is the call's arguments together with what the
\* outside world answers (the HTTP exchange, the file system, the PDF service),
\* toolResult is what the caller gets: a returned value or a propagating
\* exception.
nonToolVars == <<agent, callVars, turnVars, instVars, closed, stdioExited, dead,
                 cleanupPc, cleanupLog, runState>>

NoValue == [type |-> "none", keys |-> {}, error |-> "", data |-> "", output_files |-> <<>>]
Return(v) == [kind |-> "return", exc |-> "", value |-> v]
Raise(e) == [kind |-> "raise", exc |-> e, value |-> NoValue]
ErrorDict(msg) ==
    [type |-> "dict", keys |-> {"error"}, error |-> msg, data |-> "", output_files |-> <<>>]
\* the parsed body itself, whatever its type
DataOf(body) ==
    [type |-> body.kind, keys |-> IF body.kind = "dict" /\ body.rates THEN {"rates"} ELSE {},
     error |-> "", data |-> body, output_files |-> <<>>]

\* the exception classes the handlers tell apart: httpx.HTTPError covers
\* request errors and HTTPStatusError but not httpx.InvalidURL;
\* json.JSONDecodeError is a ValueError; TypeError is neither
IsHTTPError(e) == e \in {"ConnectError", "ReadTimeout", "HTTPStatusError"}
IsValueError(e) == e \in {"JSONDecodeError", "ValueError"}

\* what httpx.get does: a response arrives, or the request raises
Transports == {"response", "ConnectError", "ReadTimeout", "InvalidURL"}
HttpStatuses == {200, 404, 500}
Is2xx(status) == status \div 100 = 2

\* the response body as response.json() sees it: not JSON at all, or a JSON
\* value of some type that does or does not contain 'rates'
NotJson == [kind |-> "not_json", rates |-> FALSE]
JsonBodies ==
    [kind : {"dict", "list", "str"}, rates : BOOLEAN] \cup [kind : {"null", "number"}, rates : {FALSE}]
Bodies == {NotJson} \cup JsonBodies

ExchangeInputs ==
    [tool : {"get_exchange_rate"}, transport : Transports, status : HttpStatuses, body : Bodies]

\* the try block of get_exchange_rate (lines 23-32); `'rates' not in data`
\* raises TypeError when data is None or a number
get_exchange_rate_Try(in) ==
    IF in.transport # "response" THEN Raise(in.transport)
    ELSE IF ~Is2xx(in.status) THEN Raise("HTTPStatusError")
    ELSE IF in.body.kind = "not_json" THEN Raise("JSONDecodeError")
    ELSE IF in.body.kind \in {"null", "number"} THEN Raise("TypeError")
    ELSE IF ~in.body.rates THEN Return(ErrorDict("Invalid API response format."))
    ELSE Return(DataOf(in.body))

get_exchange_rate(in) ==
    LET r == get_exchange_rate_Try(in)
    IN  IF r.kind = "return" THEN r
        ELSE IF IsHTTPError(r.exc) THEN Return(ErrorDict("API request failed"))
        ELSE IF IsValueError(r.exc) THEN Return(ErrorDict("Invalid JSON response from API."))
        ELSE r

\* convert_units reads response.text: whether it contains "Result:", how many
\* '=' it has, and whether a number can be read after the '='
UcumTexts == [hasResult : BOOLEAN, equals : {0, 1, 2}, numeric : BOOLEAN]
ConvertInputs ==
    [tool : {"convert_units"}, transport : Transports, status : HttpStatuses, text : UcumTexts]

Conversion ==
    [type |-> "dict", keys |-> {"original_value", "from_unit", "to_unit", "converted_value", "conversion"},
     error |-> "", data |-> "conversion", output_files |-> <<>>]

convert_units_Try(in) ==
    IF in.transport # "response" THEN Raise(in.transport)
    ELSE IF ~Is2xx(in.status) THEN Raise("HTTPStatusError")
    ELSE IF ~in.text.hasResult THEN Return(ErrorDict("UCUM API conversion failed"))
    ELSE IF in.text.equals # 1 THEN Return(ErrorDict("Unexpected UCUM API response format"))
    ELSE IF ~in.text.numeric THEN Return(ErrorDict("Could not parse converted value from API response"))
    ELSE Return(Conversion)

\* the third handler, except Exception, catches whatever the first two let by
convert_units(in) ==
    LET r == convert_units_Try(in)
    IN  IF r.kind = "return" THEN r
        ELSE IF IsHTTPError(r.exc) THEN Return(ErrorDict("API request failed"))
        ELSE IF IsValueError(r.exc) THEN Return(ErrorDict("Invalid JSON response from API."))
        ELSE Return(ErrorDict("An unexpected error occurred"))

Finished(r) == IF r.kind = "return" THEN "returned" ELSE "raised"

Tool_get_exchange_rate ==
    /\ toolPc = "called"
    /\ toolInput.tool = "get_exchange_rate"
    /\ toolResult' = get_exchange_rate(toolInput)
    /\ toolPc' = Finished(toolResult')
    /\ UNCHANGED <<toolInput, nonToolVars>>

Tool_convert_units ==
    /\ toolPc = "called"
    /\ toolInput.tool = "convert_units"
    /\ toolResult' = convert_units(toolInput)
    /\ toolPc' = Finished(toolResult')
    /\ UNCHANGED <<toolInput, nonToolVars>>

\* ---- _parse_page_ranges: range strings are sequences of characters
MaxStrLen == 3
Chars == {"1", "2", "-", " "}
DigitChars == {"1", "2", "4", "6"}
DigitValue(ch) == CASE ch = "1" -> 1 [] ch = "2" -> 2 [] ch = "4" -> 4 [] ch = "6" -> 6
RangeStrs == SeqsUpTo(Chars, MaxStrLen)

\* the docstring's example, ["1-2", "4", "6-"]
DocExample == << <<"1", "-", "2">>, <<"4">>, <<"6", "-">> >>

\* page_ranges: every list of at most two range strings, and the example
RangeLists ==
    {<<>>} \cup {<<s>> : s \in RangeStrs} \cup {<<s, t>> : s \in RangeStrs, t \in RangeStrs}
           \cup {DocExample}
ParseInputs == [tool : {"_parse_page_ranges"}, page_ranges : RangeLists]

\* str.strip()
RECURSIVE LStrip(_)
LStrip(s) == IF s # <<>> /\ s[1] = " " THEN LStrip(Tail(s)) ELSE s
RECURSIVE RStrip(_)
RStrip(s) == IF s # <<>> /\ s[Len(s)] = " " THEN RStrip(SubSeq(s, 1, Len(s) - 1)) ELSE s
Strip(s) == RStrip(LStrip(s))

RECURSIVE Decimal(_)
Decimal(d) ==
    IF d = <<>> THEN 0 ELSE 10 * Decimal(SubSeq(d, 1, Len(d) - 1)) + DigitValue(d[Len(d)])

\* int(s): surrounding whitespace is ignored, then an optional '-' and one or
\* more digits; anything else is a ValueError (ok = FALSE)
IntOf(s) ==
    LET t == Strip(s)
        neg == t # <<>> /\ t[1] = "-"
        d == IF neg THEN Tail(t) ELSE t
    IN  IF d # <<>> /\ \A i \in 1 .. Len(d) : d[i] \in DigitChars
        THEN [ok |-> TRUE, val |-> IF neg THEN 0 - Decimal(d) ELSE Decimal(d)]
        ELSE [ok |-> FALSE, val |-> 0]

\* the entries of a PageRanges object
SinglePage(n) == [op |-> "single_page", start |-> n, end |-> n]
Range(a, b) == [op |-> "range", start |-> a, end |-> b]
AllFrom(a) == [op |-> "all_from", start |-> a, end |-> 0]
NoEntry == [op |-> "none", start |-> 0, end |-> 0]

HasDash(s) == \E i \in 1 .. Len(s) : s[i] = "-"
FirstDash(s) == CHOOSE i \in 1 .. Len(s) : s[i] = "-" /\ \A j \in 1 .. i - 1 : s[j] # "-"

\* (variant: a range is added whether or not start = end)
ParseOne_AlwaysRange(range_str) ==
    LET r == Strip(range_str)
    IN  IF HasDash(r)
        THEN LET p0 == SubSeq(r, 1, FirstDash(r) - 1)
                 p1 == SubSeq(r, FirstDash(r) + 1, Len(r))
                 start == IF p0 # <<>> THEN IntOf(p0) ELSE [ok |-> TRUE, val |-> 1]
             IN  IF ~start.ok THEN [ok |-> FALSE, entry |-> NoEntry]
                 ELSE IF p1 # <<>>
                      THEN IF ~IntOf(p1).ok THEN [ok |-> FALSE, entry |-> NoEntry]
                           ELSE [ok |-> TRUE, entry |-> Range(start.val, IntOf(p1).val)]
                      ELSE [ok |-> TRUE, entry |-> AllFrom(start.val)]
        ELSE IF IntOf(r).ok THEN [ok |-> TRUE, entry |-> SinglePage(IntOf(r).val)]
             ELSE [ok |-> FALSE, entry |-> NoEntry]

\* one pass of the loop body (lines 128-145); ok = FALSE when an int() raises
ParseOne(range_str) ==
    LET r == Strip(range_str)
    IN  IF HasDash(r)
        THEN LET p0 == SubSeq(r, 1, FirstDash(r) - 1)
                 p1 == SubSeq(r, FirstDash(r) + 1, Len(r))
                 start == IF p0 # <<>> THEN IntOf(p0) ELSE [ok |-> TRUE, val |-> 1]
             IN  IF ~start.ok THEN [ok |-> FALSE, entry |-> NoEntry]
                 ELSE IF p1 # <<>>
                      THEN IF ~IntOf(p1).ok THEN [ok |-> FALSE, entry |-> NoEntry]
                           ELSE IF start.val = IntOf(p1).val
                                THEN [ok |-> TRUE, entry |-> SinglePage(start.val)]
                                ELSE [ok |-> TRUE, entry |-> Range(start.val, IntOf(p1).val)]
                      ELSE [ok |-> TRUE, entry |-> AllFrom(start.val)]
        ELSE IF IntOf(r).ok THEN [ok |-> TRUE, entry |-> SinglePage(IntOf(r).val)]
             ELSE [ok |-> FALSE, entry |-> NoEntry]

PageRanges(entries) ==
    [type |-> "PageRanges", keys |-> {}, error |-> "", data |-> entries, output_files |-> <<>>]

_parse_page_ranges(page_ranges) ==
    IF \A i \in 1 .. Len(page_ranges) : ParseOne(page_ranges[i]).ok
    THEN Return(PageRanges([i \in 1 .. Len(page_ranges) |-> ParseOne(page_ranges[i]).entry]))
    ELSE Raise("ValueError")

Tool_parse_page_ranges ==
    /\ toolPc = "called"
    /\ toolInput.tool = "_parse_page_ranges"
    /\ toolResult' = _parse_page_ranges(toolInput.page_ranges)
    /\ toolPc' = Finished(toolResult')
    /\ UNCHANGED <<toolInput, nonToolVars>>

\* ---- split_pdf: the file system and the PDF service are part of the input
MaxAssets == 2
SplitStages == {"none", "open", "credentials", "upload", "parse", "submit", "get_job_result",
                "get_content", "write"}
SplitInputs ==
    [tool : {"split_pdf"}, exists : BOOLEAN, dirExists : BOOLEAN, makedirs : {"ok", "OSError"},
     fail : SplitStages, exc : {"ServiceApiException", "ValueError"},
     assets : 0 .. MaxAssets, failAt : 1 .. MaxAssets]

\* the call in progress: its result so far and what it has done to the world
Running ==
    [kind |-> "running", exc |-> "", value |-> NoValue, dirCreated |-> FALSE,
     uploaded |-> FALSE, written |-> <<>>, output_file_paths |-> <<>>]
SplitName(i) == "split_" \o ToString(i) \o ".pdf"
OutputFiles(paths) ==
    [type |-> "dict", keys |-> {"output_files"}, error |-> "", data |-> "", output_files |-> paths]
Returns(r, v) == [r EXCEPT !.kind = "return", !.value = v]

\* (variant: the existence check of lines 58-60 is left out)
SplitPdf_CheckFile_Unchecked ==
    /\ toolPc = "called"
    /\ toolInput.tool = "split_pdf"
    /\ toolResult' = Running
    /\ toolPc' = "sp_checked"
    /\ UNCHANGED <<toolInput, nonToolVars>>

\* lines 55-60
SplitPdf_CheckFile ==
    /\ toolPc = "called"
    /\ toolInput.tool = "split_pdf"
    /\ IF ~toolInput.exists
       THEN /\ toolResult' = Returns(Running, ErrorDict("File not found at path"))
            /\ toolPc' = "returned"
       ELSE /\ toolResult' = Running
            /\ toolPc' = "sp_checked"
    /\ UNCHANGED <<toolInput, nonToolVars>>

\* lines 62-68
SplitPdf_MakeDirs ==
    /\ toolPc = "sp_checked"
    /\ IF toolInput.dirExists
       THEN /\ toolPc' = "sp_dir"
            /\ UNCHANGED toolResult
       ELSE IF toolInput.makedirs = "OSError"
       THEN /\ toolResult' = Returns(toolResult, ErrorDict("Failed to create output directory"))
            /\ toolPc' = "returned"
       ELSE /\ toolResult' = [toolResult EXCEPT !.dirCreated = TRUE]
            /\ toolPc' = "sp_dir"
    /\ UNCHANGED <<toolInput, nonToolVars>>

\* lines 71-85: read the file, build the client, upload; open() raises when
\* the file is not there
SplitPdf_Upload ==
    /\ toolPc = "sp_dir"
    /\ IF ~toolInput.exists \/ toolInput.fail \in {"open", "credentials", "upload"}
       THEN /\ toolResult' = Returns(toolResult, ErrorDict(toolInput.exc))
            /\ toolPc' = "returned"
       ELSE /\ toolResult' = [toolResult EXCEPT !.uploaded = TRUE]
            /\ toolPc' = "sp_uploaded"
    /\ UNCHANGED <<toolInput, nonToolVars>>

\* lines 88-101: parse the ranges, submit the job, fetch its result
SplitPdf_Job ==
    /\ toolPc = "sp_uploaded"
    /\ IF toolInput.fail \in {"parse", "submit", "get_job_result"}
       THEN /\ toolResult' = Returns(toolResult, ErrorDict(toolInput.exc))
            /\ toolPc' = "returned"
       ELSE /\ toolPc' = "sp_writing"
            /\ UNCHANGED toolResult
    /\ UNCHANGED <<toolInput, nonToolVars>>

\* lines 104-111: one pass of the loop over the result assets
SplitPdf_WriteAsset ==
    /\ toolPc = "sp_writing"
    /\ Len(toolResult.output_file_paths) < toolInput.assets
    /\ LET i == Len(toolResult.output_file_paths) + 1
       IN  IF toolInput.fail \in {"get_content", "write"} /\ toolInput.failAt = i
           THEN /\ toolResult' = Returns(toolResult, ErrorDict(toolInput.exc))
                /\ toolPc' = "returned"
           ELSE /\ toolResult' = [toolResult EXCEPT !.written = Append(@, SplitName(i)),
                                                    !.output_file_paths = Append(@, SplitName(i))]
                /\ UNCHANGED toolPc
    /\ UNCHANGED <<toolInput, nonToolVars>>

\* line 113
SplitPdf_Return ==
    /\ toolPc = "sp_writing"
    /\ Len(toolResult.output_file_paths) = toolInput.assets
    /\ toolResult' = Returns(toolResult, OutputFiles(toolResult.output_file_paths))
    /\ toolPc' = "returned"
    /\ UNCHANGED <<toolInput, nonToolVars>>

split_pdf ==
    \/ SplitPdf_CheckFile
    \/ SplitPdf_MakeDirs
    \/ SplitPdf_Upload
    \/ SplitPdf_Job
    \/ SplitPdf_WriteAsset
    \/ SplitPdf_Return

ToolInputs == ExchangeInputs \cup ConvertInputs \cup ParseInputs \cup SplitInputs

InitTools ==
    /\ InitCommon
    /\ InitInstance("pdf")
    /\ memory = [id \in ContextIds |-> [messages |-> <<>>, structured_response |-> NoResponse]]
    /\ toolPc = "called"
    /\ toolInput \in ToolInputs
    /\ toolResult = Running

NextTools ==
    \/ Tool_get_exchange_rate
    \/ Tool_convert_units
    \/ Tool_parse_page_ranges
    \/ split_pdf

SpecTools == InitTools /\ [][NextTools]_vars

\* ================================================================== claims
IsProgress(e) == e.is_task_complete = FALSE /\ e.require_user_input = FALSE
Recorded(c) == Thread(c).structured_response
StreamedTurn(c) == agent \in LangGraphAgents /\ mode[c] = "stream"
ProgressCount(c) == Cardinality({i \in 1 .. Len(events[c]) : IsProgress(events[c][i])})
RequestPending(c) ==
    Len(History(c)) > 0 /\ Last(History(c)).type = "ai" /\ Last(History(c)).tool_calls > 0

\* C1: a langgraph agent's stream yields only progress events (is_task_complete
\* and require_user_input both False) until it returns, and when it returns the
\* last event, and only the last, is the terminal event get_agent_response
\* gives for the recorded state.
C1_ProgressThenOneTerminal ==
    \A c \in TurnCalls :
        StreamedTurn(c) =>
            /\ \A i \in 1 .. Len(events[c]) :
                   (i < Len(events[c]) \/ pc[c] # "done") => IsProgress(events[c][i])
            /\ pc[c] = "done" =>
                   /\ Len(events[c]) >= 1
                   /\ Last(events[c]) = get_agent_response(Recorded(c))
                   /\ ~IsProgress(Last(events[c]))

C1_Witness ==
    \E c \in TurnCalls :
        /\ StreamedTurn(c)
        /\ pc[c] = "done"
        /\ Len(events[c]) = 5
        /\ IsProgress(events[c][4])
        /\ ~IsProgress(events[c][5])

\* C2 (as claimed): PdfSplitAgent.stream yields exactly one event with
\* is_task_complete = True, and nothing after it.
C2_ExactlyOneFinalAndLast ==
    \A c \in TurnCalls :
        agent = "pdf" =>
            /\ \A i \in 1 .. Len(events[c]) : events[c][i].is_task_complete => i = Len(events[c])
            /\ pc[c] = "done" => Len(events[c]) >= 1 /\ Last(events[c]).is_task_complete

\* C3 (as claimed): when the turn engine raises, the stream still ends with
\* one final event, the last one, carrying the generic failure message.
C3_FaultStillEndsWithFinal ==
    \A c \in TurnCalls :
        pc[c] = "raised" =>
            /\ Len(events[c]) >= 1
            /\ IF agent = "pdf"
               THEN Last(events[c]).is_task_complete
               ELSE Last(events[c]) = Event(FALSE, TRUE, GenericMessage)

\* C4: when the recorded structured response is a ResponseFormat with status
\* 'completed' and message M, the event the call ends with is
\* {is_task_complete: True, require_user_input: False, content: M}.
C4_CompletedRoundTrip ==
    \A c \in TurnCalls :
        (agent \in LangGraphAgents /\ pc[c] = "done"
            /\ Recorded(c).kind = "ResponseFormat" /\ Recorded(c).status = "completed")
        => Last(events[c]) = Event(TRUE, FALSE, Recorded(c).message)

C4_Witness ==
    \E c \in TurnCalls :
        /\ StreamedTurn(c)
        /\ pc[c] = "done"
        /\ Recorded(c) = ResponseFormat("completed", "1 USD = 0.92 EUR")
        /\ Last(events[c]).content = "1 USD = 0.92 EUR"
        /\ Last(events[c]).is_task_complete

\* C5: the terminal event has is_task_complete = True exactly when the
\* recorded structured response is a ResponseFormat with status 'completed';
\* in every other case it has require_user_input = True; the two flags are
\* never equal.
C5_CompleteIffCompleted ==
    \A c \in TurnCalls :
        (agent \in LangGraphAgents /\ pc[c] = "done") =>
            LET e == Last(events[c])
                sr == Recorded(c)
            IN  /\ e.is_task_complete <=> (sr.kind = "ResponseFormat" /\ sr.status = "completed")
                /\ ~e.is_task_complete => e.require_user_input
                /\ e.is_task_complete # e.require_user_input

C5_Witness ==
    \E c \in TurnCalls :
        /\ agent \in LangGraphAgents
        /\ pc[c] = "done"
        /\ Recorded(c).kind = "ResponseFormat"
        /\ Recorded(c).status = "error"
        /\ ~Last(events[c]).is_task_complete
        /\ Last(events[c]).require_user_input

\* C6: when the recorded state holds no ResponseFormat (nothing, or a value of
\* another type), the terminal event's content is the fixed generic text.
C6_GenericWhenUnusable ==
    \A c \in TurnCalls :
        (agent \in LangGraphAgents /\ pc[c] = "done" /\ Recorded(c).kind # "ResponseFormat")
        => Last(events[c]).content = GenericMessage

C6_Witness ==
    \E c \in TurnCalls :
        /\ agent \in LangGraphAgents
        /\ pc[c] = "done"
        /\ Recorded(c) = OtherTyped("completed", "1 USD = 0.92 EUR")
        /\ Last(events[c]).content = GenericMessage

C8_BudgetEndsWithErrorStatus ==
    \A c \in TurnCalls :
        budgetHit[c] =>
            /\ pc[c] # "raised"
            /\ pc[c] = "done" =>
                   /\ Recorded(c).kind = "ResponseFormat"
                   /\ Recorded(c).status = "error"
                   /\ Last(events[c]) = Event(FALSE, TRUE, Recorded(c).message)

\* C9 (as claimed): one instance enters stdio_client and ClientSession at most
\* once, and every call runs its turn on the graph of that one session.
C9_OneChildOneSession ==
    /\ Cardinality(children) <= 1
    /\ Cardinality(entered) <= 1
    /\ \A c \in Calls : pc[c] \in {"in_graph", "tool_pending", "done"} => callGraph[c] \in entered
    /\ \A c, d \in Calls :
           (pc[c] \in {"in_graph", "tool_pending", "done"}
               /\ pc[d] \in {"in_graph", "tool_pending", "done"})
           => callGraph[c] = callGraph[d]

\* C10 (as claimed): at most one tool request is in flight on a session at any
\* time, whichever calls issue them.
C10_RequestsSerialized ==
    \A s \in Calls : Cardinality({c \in Calls : <<s, c>> \in outstanding}) <= 1

\* C11 (as claimed): once the child process has exited the adapter is marked
\* unusable: no later tool invocation is issued on the dead child's session,
\* the call fails at once instead.
C11_DeadAdapterRejectsCalls ==
    [][\A c \in Calls :
           (pc[c] = "in_graph" /\ pc'[c] = "tool_pending") => callGraph[c] \notin dead]_vars

C18_NoDispatchOnClosedSession ==
    \A c \in Calls : pc[c] = "tool_pending" => callGraph[c] \notin closed

OwnId(c) == \A d \in Calls \ {c} : pc[d] # "idle" => context_id[d] # context_id[c]
Loaded(c) == pc[c] \in {"t_running", "t_finished", "done"}

\* C12 (as claimed): turns started concurrently on one conversation id behave
\* as if run one after the other: each stream's terminal event reports the
\* structured response of its own turn, and when they are done the stored
\* history holds the messages of both (no update is lost).
C12_SameIdTurnsSerialized ==
    \A c \in Calls :
        pc[c] = "done" =>
            /\ Last(events[c]) = get_agent_response(runState[c].structured_response)
            /\ \A d \in Calls :
                   (pc[d] = "done" /\ context_id[d] = context_id[c])
                   => \E i \in 1 .. Len(memory[context_id[c]].messages) :
                          memory[context_id[c]].messages[i] = TurnMessage("human", 0, d)

\* C13: a turn whose conversation id no other call uses is untouched by the
\* turns running beside it: the state stored under its id is the state of its
\* own run, and its terminal event is the one computed from its own turn's
\* structured response.
C13_DistinctIdsIndependent ==
    \A c \in Calls :
        (Loaded(c) /\ OwnId(c)) =>
            /\ memory[context_id[c]] = runState[c]
            /\ pc[c] = "done" =>
                   Last(events[c]) = get_agent_response(runState[c].structured_response)

C13_Witness ==
    /\ pc[1] = "done"
    /\ pc[2] = "t_finished"
    /\ context_id[1] # context_id[2]
    /\ cycles[1] = 1
    /\ cycles[2] = 1
    /\ Last(events[1]) = [is_task_complete |-> TRUE, require_user_input |-> FALSE,
                          content |-> "answer 1"]
    /\ memory[context_id[2]].structured_response.message = "answer 2"

ToolDone == toolPc \in {"returned", "raised"}

\* C14 (as claimed): no tool lets a fault cross its boundary: whatever the
\* service or the parsing step does, split_pdf, convert_units and
\* get_exchange_rate return a dictionary and never raise to the caller.
C14_NoFaultCrossesBoundary ==
    (ToolDone /\ toolInput.tool \in {"split_pdf", "convert_units", "get_exchange_rate"})
    => /\ toolPc = "returned"
       /\ toolResult.value.type = "dict"

\* C15 (as claimed): get_exchange_rate answers a non-2xx response, a body
\* that is not valid JSON, a JSON body without a 'rates' entry and a
\* network-level error with a dictionary that has an 'error' key, and returns
\* the response data unchanged only for a 2xx response whose JSON body
\* contains 'rates'.
C15_TransportFailuresMapped ==
    (ToolDone /\ toolInput.tool = "get_exchange_rate" /\ toolInput.transport # "InvalidURL")
    => IF /\ toolInput.transport = "response"
          /\ toolInput.status \in 200 .. 299
          /\ toolInput.body.kind # "not_json"
          /\ toolInput.body.rates
       THEN toolPc = "returned" /\ toolResult.value.data = toolInput.body
       ELSE toolPc = "returned" /\ "error" \in toolResult.value.keys

\* the documented notation: 'a-b', 'a-', '-b' and 'n', a, b and n written in digits
IsDigits(s) == s # <<>> /\ \A i \in 1 .. Len(s) : s[i] \in DigitChars
Before(s) == SubSeq(s, 1, FirstDash(s) - 1)
After(s) == SubSeq(s, FirstDash(s) + 1, Len(s))
Documented(s) ==
    IF HasDash(s)
    THEN /\ Before(s) = <<>> \/ IsDigits(Before(s))
         /\ After(s) = <<>> \/ IsDigits(After(s))
         /\ Before(s) # <<>> \/ After(s) # <<>>
    ELSE IsDigits(s)
StartOf(s) == IF Before(s) = <<>> THEN 1 ELSE Decimal(Before(s))
Notation(s) ==
    IF ~HasDash(s) THEN SinglePage(Decimal(s))
    ELSE IF After(s) = <<>> THEN AllFrom(StartOf(s))
    ELSE IF StartOf(s) = Decimal(After(s)) THEN SinglePage(StartOf(s))
    ELSE Range(StartOf(s), Decimal(After(s)))

C19_SplitPdfResult ==
    (ToolDone /\ toolInput.tool = "split_pdf")
    => /\ toolPc = "returned"
       /\ toolResult.value.type = "dict"
       /\ toolResult.value.keys \in {{"output_files"}, {"error"}}
       /\ ~toolInput.exists
          => /\ toolResult.value.keys = {"error"}
             /\ ~toolResult.dirCreated
             /\ ~toolResult.uploaded
             /\ toolResult.written = <<>>
       /\ toolResult.value.keys = {"output_files"}
          => /\ toolResult.written = [i \in 1 .. toolInput.assets |-> SplitName(i)]
             /\ toolResult.value.output_files = [i \in 1 .. toolInput.assets |-> SplitName(i)]

C19_Witness ==
    /\ toolPc = "returned"
    /\ toolInput.tool = "split_pdf"
    /\ toolInput.assets = MaxAssets
    /\ toolResult.dirCreated
    /\ toolResult.value.output_files = <<"split_1.pdf", "split_2.pdf">>

\* the newline-join of all non-empty text parts
AllTexts(content) ==
    IF content.present THEN JoinLines(MapText(SelectSeq(content.parts, Truthy))) ELSE ""
FirstIsText(content) ==
    /\ content.present
    /\ content.parts # <<>>
    /\ content.parts[1].is_text
    /\ content.parts[1].text # ""
OnePerRunnerEvent(c) ==
    /\ Len(events[c]) = Len(runnerEvents[c])
    /\ \A i \in 1 .. Len(runnerEvents[c]) :
           /\ events[c][i].is_task_complete = runnerEvents[c][i].final
           /\ ~runnerEvents[c][i].final => events[c][i].content = ProcessingMessage

\* C20 (as claimed): PdfSplitAgent.stream yields one event per runner event,
\* in order: the processing message, not complete, for a non-final event; for
\* a final event a complete event whose content is the newline-join of all
\* non-empty text parts, empty only when the event has no text part.
C20_FinalContentJoinsAllText ==
    \A c \in Calls :
        agent = "pdf" =>
            /\ OnePerRunnerEvent(c)
            /\ \A i \in 1 .. Len(runnerEvents[c]) :
                   runnerEvents[c][i].final
                   => events[c][i].content = AllTexts(runnerEvents[c][i].content)

\* C20 (amended): as above, but the content of a final event is the
\* newline-join of all its non-empty text parts only when its first part has
\* non-empty text, and is empty otherwise, whatever the later parts hold.
C20_FinalContentGuardedByFirstPart ==
    \A c \in Calls :
        agent = "pdf" =>
            /\ OnePerRunnerEvent(c)
            /\ \A i \in 1 .. Len(runnerEvents[c]) :
                   runnerEvents[c][i].final
                   => events[c][i].content =
                          IF FirstIsText(runnerEvents[c][i].content)
                          THEN AllTexts(runnerEvents[c][i].content)
                          ELSE ""

C20_Witness ==
    /\ agent = "pdf"
    /\ Len(runnerEvents[1]) = 2
    /\ ~runnerEvents[1][1].final
    /\ runnerEvents[1][2] =
           [final |-> TRUE, content |-> Content(<<Part(FALSE, ""), Part(TRUE, "split_1.pdf")>>)]
    /\ events[1][2] = [is_task_complete |-> TRUE, content |-> ""]

====
